---------------------------- MODULE Spec2Model ----------------------------
(***************************************************************************)
(* A model of src/main.py: the media indexer (preload_local_media), the    *)
(* cue parsers, the key resolver, the command argument parser, the pager   *)
(* (build_page) and the four command handlers of the bot.                  *)
(*                                                                         *)
(* Strings are sequences of characters.  A character is a one-character    *)
(* TLA+ string; the non-ASCII characters of the source are written as      *)
(* named atoms: "BULLET" (U+2022), "NDASH" (U+2013), "PLAY" (U+25B6),      *)
(* "i_acute", "I_ACUTE", "a_acute", "LDQUO", "RDQUO", "LSQUO", "RSQUO"     *)
(* (U+201C, U+201D, U+2018, U+2019), "ZWSP" (U+200B) and "NL" (line feed). *)
(* Each counts as one character, as in Python's len().  Times are integer  *)
(* milliseconds (the timestamp pattern admits exactly three decimals).     *)
(***************************************************************************)
EXTENDS Integers, Sequences, FiniteSets, TLC

VARIABLES
    fs,        \* the files under DATA_DIR, in directory-listing order
    MEDIA_DB,  \* the global index: a sequence of entries in insertion order
    scanned,   \* history: the files as they were at the last rebuild
    changes,   \* history: the changes of the files since the last rebuild
    pc,        \* "idle": waiting for an update; "done": a handler has run
    cmd,       \* the update handled last and what the handler computed
    sent       \* the messages the handler sent, in order

vars == <<fs, MEDIA_DB, scanned, changes, pc, cmd, sent>>

---------------------------------------------------------------------------
(* Program constants.                                                      *)

PAGE_SIZE == 100
MSG_BUDGET == 3900
maxlen == 3500
\* MIN_LAST_DUR = 1.2 s and 1 / DEFAULT_WPS = 1 / 2.5 s, in milliseconds
MIN_LAST_DUR_MS == 1200
MS_PER_WORD == 400

AUDIO_EXTS == { <<".", "m", "p", "3">>, <<".", "w", "a", "v">>,
                <<".", "m", "4", "a">>, <<".", "o", "g", "g">>,
                <<".", "o", "g", "a">>, <<".", "a", "a", "c">>,
                <<".", "f", "l", "a", "c">> }
TEXT_EXTS == { <<".", "t", "x", "t">>, <<".", "s", "r", "t">>,
               <<".", "v", "t", "t">> }

---------------------------------------------------------------------------
(* Characters and the string methods the source uses.                      *)

Digits == <<"0", "1", "2", "3", "4", "5", "6", "7", "8", "9">>
UpperSeq == <<"A", "B", "C", "D", "E", "F", "G", "H", "I", "J", "K", "L",
              "M", "N", "O", "P", "Q", "R", "S", "T", "U", "V", "W", "X",
              "Y", "Z">>
LowerSeq == <<"a", "b", "c", "d", "e", "f", "g", "h", "i", "j", "k", "l",
              "m", "n", "o", "p", "q", "r", "s", "t", "u", "v", "w", "x",
              "y", "z">>

\* every character of the model, in code point order
CodeOrder ==
    <<"NL", " ", "\"", "'", "(", ")", ",", "-", ".", "/">> \o Digits \o
    <<":", "<", ">">> \o UpperSeq \o <<"[", "]", "_">> \o LowerSeq \o
    <<"I_ACUTE", "a_acute", "i_acute", "ZWSP", "NDASH", "LSQUO", "RSQUO",
      "LDQUO", "RDQUO", "BULLET", "PLAY">>

Range(s) == { s[i] : i \in 1..Len(s) }
Chars == Range(CodeOrder)

CharOrd == [c \in Chars |-> CHOOSE i \in 1..Len(CodeOrder) : CodeOrder[i] = c]

IsDigitChar(c) == c \in Range(Digits)
DigitVal(c) == (CHOOSE i \in 1..10 : Digits[i] = c) - 1
\* str.isspace() of one character (U+200B is not white space in Python)
IsSpace(c) == c \in {" ", "NL"}
\* a character of the regular expression class \w
IsWordChar(c) ==
    c \in Range(Digits) \cup Range(UpperSeq) \cup Range(LowerSeq)
          \cup {"_", "I_ACUTE", "a_acute", "i_acute"}

\* A function written [i \in 1..n |-> e] is evaluated anew at each application;
\* Tuple(f) is f with its elements evaluated once
Tuple(f) == f \o <<>>

RECURSIVE Fold(_, _, _, _)
\* Step(...Step(Step(st, lo), lo + 1)..., hi): a loop over lo..hi from state
\* st.  The range is halved so that the evaluation stays shallow, and st is
\* evaluated (st # st is false) before the steps that read it
Fold(Step(_, _), st, lo, hi) ==
    IF st # st \/ lo > hi THEN st
    ELSE IF lo = hi THEN Step(st, lo)
    ELSE LET mid == (lo + hi) \div 2
         IN  Fold(Step, Fold(Step, st, lo, mid), mid + 1, hi)

LowerChar(c) ==
    IF c \in Range(UpperSeq)
    THEN LowerSeq[CHOOSE i \in 1..26 : UpperSeq[i] = c]
    ELSE IF c = "I_ACUTE" THEN "i_acute" ELSE c

\* str.lower()
Lower(s) == Tuple([i \in 1..Len(s) |-> LowerChar(s[i])])

\* str.isdigit()
IsDigitStr(s) == Len(s) > 0 /\ \A i \in 1..Len(s) : IsDigitChar(s[i])

Min(S) == CHOOSE x \in S : \A y \in S : x <= y
Max(S) == CHOOSE x \in S : \A y \in S : x >= y

RECURSIVE SkipLeft(_, _, _)
\* the first index >= i of s whose character is not in cs (Len(s)+1 if none)
SkipLeft(s, i, cs) ==
    IF i <= Len(s) /\ s[i] \in cs THEN SkipLeft(s, i + 1, cs) ELSE i

RECURSIVE SkipRight(_, _, _)
\* the last index <= i of s whose character is not in cs (0 if none)
SkipRight(s, i, cs) ==
    IF i >= 1 /\ s[i] \in cs THEN SkipRight(s, i - 1, cs) ELSE i

\* str.strip(chars)
StripChars(s, cs) ==
    LET a == SkipLeft(s, 1, cs)
        b == SkipRight(s, Len(s), cs)
    IN  IF a > b THEN <<>> ELSE SubSeq(s, a, b)

\* str.strip()
Strip(s) == StripChars(s, {" ", "NL"})

\* str.rstrip()
RStrip(s) == SubSeq(s, 1, SkipRight(s, Len(s), {" ", "NL"}))

\* int(s) of a string of decimal digits
RECURSIVE ToInt(_)
ToInt(s) ==
    IF Len(s) = 0 THEN 0
    ELSE 10 * ToInt(SubSeq(s, 1, Len(s) - 1)) + DigitVal(s[Len(s)])

\* str(n) of a natural number
RECURSIVE ToStr(_)
ToStr(n) ==
    IF n < 10 THEN <<Digits[n + 1]>>
    ELSE ToStr(n \div 10) \o <<Digits[(n % 10) + 1]>>

\* a in b, for strings
Contains(b, a) ==
    \E i \in 0..(Len(b) - Len(a)) : SubSeq(b, i + 1, i + Len(a)) = a

\* b.endswith(a)
EndsWith(b, a) ==
    Len(a) <= Len(b) /\ SubSeq(b, Len(b) - Len(a) + 1, Len(b)) = a

\* b.startswith(a)
StartsWith(b, a) == Len(a) <= Len(b) /\ SubSeq(b, 1, Len(a)) = a

\* Python's "<" on two strings: by code point, a proper prefix first
StrLess(a, b) ==
    LET n == IF Len(a) < Len(b) THEN Len(a) ELSE Len(b)
        diff == { i \in 1..n : a[i] # b[i] }
    IN  IF diff = {} THEN Len(a) < Len(b)
        ELSE CharOrd[a[Min(diff)]] < CharOrd[b[Min(diff)]]

\* sep.join(parts)
Join(sep, parts) ==
    Fold(LAMBDA acc, i : IF i = 1 THEN parts[1] ELSE acc \o sep \o parts[i],
         <<>>, 1, Len(parts))

\* the concatenation of a sequence of strings
Concat(parts) == Join(<<>>, parts)

\* s * n: the string s repeated n times
Rep(s, n) == Concat(Tuple([i \in 1..n |-> s]))

\* os.path.basename of a key
Basename(k) ==
    LET sl == { i \in 1..Len(k) : k[i] = "/" }
    IN  IF sl = {} THEN k ELSE SubSeq(k, Max(sl) + 1, Len(k))

---------------------------------------------------------------------------
(* Parsers.  The content of a text file is the sequence of its lines, as   *)
(* content.replace(...).splitlines() yields them.  Where the source binds  *)
(* a local variable, the model passes the value on as a parameter of the   *)
(* operator that continues the function.                                   *)

UpperChar(c) ==
    IF c \in Range(LowerSeq)
    THEN UpperSeq[CHOOSE i \in 1..26 : LowerSeq[i] = c]
    ELSE IF c = "i_acute" THEN "I_ACUTE" ELSE c

\* str.upper()
Upper(s) == Tuple([i \in 1..Len(s) |-> UpperChar(s[i])])

RECURSIVE RemoveTags(_, _)
\* re.sub(r"<[^>]+>", "", s), scanning from index i
RemoveTags(s, i) ==
    IF i > Len(s) THEN <<>>
    ELSE IF /\ s[i] = "<" /\ i + 1 <= Len(s) /\ s[i + 1] # ">"
            /\ \E j \in (i + 2)..Len(s) : s[j] = ">"
    THEN RemoveTags(s, Min({ j \in (i + 2)..Len(s) : s[j] = ">" }) + 1)
    ELSE <<s[i]>> \o RemoveTags(s, i + 1)

normalize_text(t) ==
    RemoveTags(Strip(SelectSeq(t, LAMBDA c : c # "ZWSP")), 1)

\* float(p) in milliseconds, p being digits with three decimals after a "."
SecondsMs(p) ==
    IF \A i \in 1..Len(p) : p[i] # "." THEN 1000 * ToInt(p)
    ELSE 1000 * ToInt(SubSeq(p, 1, Len(p) - 4))
         + ToInt(SubSeq(p, Len(p) - 2, Len(p)))

\* str.split(c) on a one-character separator
RECURSIVE SplitOn(_, _)
SplitOn(s, c) ==
    IF \A i \in 1..Len(s) : s[i] # c THEN <<s>>
    ELSE <<SubSeq(s, 1, Min({ i \in 1..Len(s) : s[i] = c }) - 1)>>
         \o SplitOn(SubSeq(s, Min({ i \in 1..Len(s) : s[i] = c }) + 1,
                           Len(s)), c)

\* s.replace(",", ".")
CommaToDot(s) == Tuple([i \in 1..Len(s) |-> IF s[i] = "," THEN "." ELSE s[i]])

\* the value of parse_ts from parts = s.split(":")
TsOfParts(parts) ==
    IF Len(parts) = 3
    THEN ToInt(parts[1]) * 3600000 + ToInt(parts[2]) * 60000
         + SecondsMs(parts[3])
    ELSE IF Len(parts) = 2
    THEN ToInt(parts[1]) * 60000 + SecondsMs(parts[2])
    ELSE SecondsMs(parts[1])

parse_ts(s) == TsOfParts(SplitOn(CommaToDot(Strip(s)), ":"))

\* the two alternatives of a time in time_re: d is \d, "." is [\.,]
ShapeLong == <<"d", "d", ":", "d", "d", ":", "d", "d", ".", "d", "d", "d">>
ShapeShort == <<"d", "d", ":", "d", "d", ".", "d", "d", "d">>

ShapeAt(s, p, shape) ==
    /\ p + Len(shape) - 1 <= Len(s)
    /\ \A i \in 1..Len(shape) :
          CASE shape[i] = "d" -> IsDigitChar(s[p + i - 1])
            [] shape[i] = "." -> s[p + i - 1] \in {".", ","}
            [] OTHER -> s[p + i - 1] = ":"

\* the length of the time matched at index p of s (0: none)
TimeLenAt(s, p) ==
    IF ShapeAt(s, p, ShapeLong) THEN Len(ShapeLong)
    ELSE IF ShapeAt(s, p, ShapeShort) THEN Len(ShapeShort)
    ELSE 0

\* the index after the white space that starts at index p of s
AfterSpace(s, p) == SkipLeft(s, p, {" ", "NL"})

\* "-->", white space and a time stand at index q of s
ArrowAt(s, q) ==
    /\ q + 2 <= Len(s)
    /\ SubSeq(s, q, q + 2) = <<"-", "-", ">">>
    /\ TimeLenAt(s, AfterSpace(s, q + 3)) > 0

\* time_re matches at index p of s
TimeReAt(s, p) ==
    /\ TimeLenAt(s, p) > 0
    /\ ArrowAt(s, AfterSpace(s, p + TimeLenAt(s, p)))

\* the time at index p of s
TimeAt(s, p) == SubSeq(s, p, p + TimeLenAt(s, p) - 1)

\* <<group(1), group(2)>> of the match of time_re at index p of s
TimeGroups(s, p) ==
    <<TimeAt(s, p),
      TimeAt(s, AfterSpace(s, AfterSpace(s, p + TimeLenAt(s, p)) + 3))>>

\* time_re.search(s): <<>> when there is no match, else the groups
TimeReSearch(s) ==
    IF \A p \in 1..Len(s) : ~TimeReAt(s, p) THEN <<>>
    ELSE TimeGroups(s, Min({ p \in 1..Len(s) : TimeReAt(s, p) }))

\* sorted(seq, key), stable: the position of element i in the result
SortRank(seq, Less(_, _), i) ==
    1 + Cardinality({ j \in 1..Len(seq) :
                        \/ Less(seq[j], seq[i])
                        \/ (~Less(seq[i], seq[j]) /\ j < i) })

\* the elements of seq placed at their ranks
Ranked(seq, rank) ==
    Tuple([r \in 1..Len(seq) |-> seq[CHOOSE i \in 1..Len(seq) : rank[i] = r]])

SortedBy(seq, Less(_, _)) ==
    Ranked(seq, Tuple([i \in 1..Len(seq) |-> SortRank(seq, Less, i)]))

RECURSIVE BlockEnd(_, _)
\* the first index >= i of lines that is past the end or holds a blank line
BlockEnd(lines, i) ==
    IF i <= Len(lines) /\ Strip(lines[i]) # <<>>
    THEN BlockEnd(lines, i + 1) ELSE i

RECURSIVE SrtLoop(_, _, _)

\* "if en > st and text: cues.append(...)", then on from the line after e
SrtEmit(lines, cues, st, en, e, text) ==
    SrtLoop(lines, e + 1,
            IF en > st /\ text # <<>>
            THEN Append(cues, [start |-> st, end |-> en, text |-> text])
            ELSE cues)

\* the block of the lines b .. e - 1 that follow a time line
SrtBlock(lines, cues, st, en, b, e) ==
    SrtEmit(lines, cues, st, en, e,
            normalize_text(Join(<<" ">>, SubSeq(lines, b, e - 1))))

\* "if m:" with the match m found on line i
SrtCue(lines, i, cues, m) ==
    SrtBlock(lines, cues, parse_ts(m[1]), parse_ts(m[2]), i + 1,
             BlockEnd(lines, i + 1))

\* "if not m and i + 1 < len(lines)": m2 is the match on line i + 1
SrtAhead(lines, i, cues, m2) ==
    IF m2 # <<>> THEN SrtCue(lines, i + 1, cues, m2)
    ELSE SrtLoop(lines, i + 1, cues)

\* one iteration of the while loop, m1 being the match on line i
SrtAt(lines, i, cues, m1) ==
    IF m1 # <<>> THEN SrtCue(lines, i, cues, m1)
    ELSE IF i + 1 <= Len(lines)
    THEN SrtAhead(lines, i, cues, TimeReSearch(Strip(lines[i + 1])))
    ELSE SrtLoop(lines, i + 1, cues)

\* the while loop of parse_srt_vtt, from (1-based) line i with cues so far
SrtLoop(lines, i, cues) ==
    IF i > Len(lines) THEN cues
    ELSE SrtAt(lines, i, cues, TimeReSearch(Strip(lines[i])))

\* the lines without a first line that starts with WEBVTT
DropWebvtt(content) ==
    IF Len(content) > 0
       /\ StartsWith(Upper(Strip(content[1])), <<"W", "E", "B", "V", "T",
           "T">>)
    THEN Tail(content) ELSE content

CueStartLess(a, b) == a.start < b.start

parse_srt_vtt(content) ==
    SortedBy(SrtLoop(DropWebvtt(content), 1, <<>>), CueStartLess)

\* len(re.findall(r"\w+", s))
WordCount(s) ==
    Cardinality({ i \in 1..Len(s) :
                    IsWordChar(s[i]) /\ (i = 1 \/ ~IsWordChar(s[i - 1])) })

\* max(MIN_LAST_DUR, words / DEFAULT_WPS), in milliseconds
Duration(words) ==
    IF words * MS_PER_WORD > MIN_LAST_DUR_MS THEN words * MS_PER_WORD
    ELSE MIN_LAST_DUR_MS

\* cues.append(Cue(t0, t0 + dur, txt)); t0 += dur
TxtCue(st, txt, dur) ==
    [t0 |-> st.t0 + dur,
     cues |-> Append(st.cues,
                     [start |-> st.t0, end |-> st.t0 + dur, text |-> txt])]

\* one iteration of the for loop of parse_txt on row r
TxtRow(st, txt) == TxtCue(st, txt, Duration(WordCount(txt)))

\* the for loop of parse_txt over rows
TxtLoop(rows) ==
    Fold(LAMBDA st, i : TxtRow(st, normalize_text(rows[i])),
         [t0 |-> 0, cues |-> <<>>], 1, Len(rows)).cues

parse_txt(content) == TxtLoop(SelectSeq(content, LAMBDA r : Strip(r) # <<>>))

---------------------------------------------------------------------------
(* The indexer.  A file is [root, rel, name, readable, content]: the       *)
(* directory of DATA_DIR it lies under, its directory relative to that     *)
(* root ("" for the root itself, "/"-separated below), its file name,      *)
(* whether open() and read() succeed on it, and its lines.  fs lists the   *)
(* files in the order os.listdir and os.walk yield them.                   *)

\* the indices of the dots of name that have a non-dot character before them
ExtDots(name) ==
    { i \in 1..Len(name) : name[i] = "." /\ \E j \in 1..(i - 1) : name[j] # "." }

\* os.path.splitext(name): <<base, ext>>
splitext(name) ==
    IF ExtDots(name) = {} THEN <<name, <<>>>>
    ELSE <<SubSeq(name, 1, Max(ExtDots(name)) - 1),
           SubSeq(name, Max(ExtDots(name)), Len(name))>>

ExtOf(f) == Lower(splitext(f.name)[2])

\* rel_dir followed by "/", or nothing at the root
RelDir(f) == IF f.rel = <<>> THEN <<>> ELSE f.rel \o <<"/">>

\* key = f"{root}/{rel_base}"
KeyOf(f) == f.root \o <<"/">> \o RelDir(f) \o splitext(f.name)[1]

\* os.path.join(dirpath, f), relative to DATA_DIR
PathOf(f) == f.root \o <<"/">> \o RelDir(f) \o f.name

RECURSIVE SortedSeqOf(_)
\* the elements of a set of integers in ascending order
SortedSeqOf(S) ==
    IF S = {} THEN <<>> ELSE <<Min(S)>> \o SortedSeqOf(S \ {Min(S)})

\* the files of tree at the indices idx, by their roots
RootsAt(tree, idx) == Tuple([r \in 1..Len(idx) |-> tree[idx[r]].root])

\* roots: the directories of DATA_DIR, in listing order
Roots(tree) ==
    RootsAt(tree, SortedSeqOf({ i \in 1..Len(tree) :
                     \A j \in 1..(i - 1) : tree[j].root # tree[i].root }))

\* entry = candidates.setdefault(key, {}); entry[kind] = full (the file i)
SetCandidate(cands, key, kind, i, at) ==
    IF at = {}
    THEN Append(cands, [[key |-> key, audio |-> 0, subs |-> 0]
                           EXCEPT ![kind] = i])
    ELSE [cands EXCEPT ![Min(at)][kind] = i]

\* one iteration of "for f in files", on the file i of the tree
AddCandidate(cands, tree, i) ==
    IF ExtOf(tree[i]) \notin AUDIO_EXTS \cup TEXT_EXTS THEN cands
    ELSE SetCandidate(cands, KeyOf(tree[i]),
                      IF ExtOf(tree[i]) \in AUDIO_EXTS THEN "audio" ELSE "subs",
                      i,
                      { c \in 1..Len(cands) : cands[c].key = KeyOf(tree[i]) })

\* the os.walk loop over the files of one root: its candidates
Walk(tree, root) ==
    Fold(LAMBDA cands, i : IF tree[i].root = root
                           THEN AddCandidate(cands, tree, i) ELSE cands,
         <<>>, 1, Len(tree))

\* the cues of a text file, by its extension
ParseSubs(f) ==
    IF ExtOf(f) \in { <<".", "s", "r", "t">>, <<".", "v", "t", "t">> }
    THEN parse_srt_vtt(f.content) ELSE parse_txt(f.content)

\* IndexGroup skipping a group only when it has neither of the two files
IndexGroupEither(tree, c) ==
    IF c.subs = 0 THEN <<>>
    ELSE IF ~tree[c.subs].readable THEN <<>>
    ELSE << [key |-> c.key,
             audio |-> IF c.audio = 0 THEN <<>> ELSE PathOf(tree[c.audio]),
             cues |-> ParseSubs(tree[c.subs])] >>

\* the body of "for key, parts in candidates.items()" for one candidate:
\* the entry stored, or <<>> when the group is skipped or its read raises
IndexGroup(tree, c) ==
    IF c.audio = 0 \/ c.subs = 0 THEN <<>>
    ELSE IF ~tree[c.subs].readable THEN <<>>
    ELSE << [key |-> c.key, audio |-> PathOf(tree[c.audio]),
             cues |-> ParseSubs(tree[c.subs])] >>

\* MEDIA_DB[key] = entry: a present key keeps its place in the order
Store(db, entry) ==
    IF entry = <<>> THEN db
    ELSE IF \E i \in 1..Len(db) : db[i].key = entry[1].key
    THEN [db EXCEPT ![CHOOSE i \in 1..Len(db) : db[i].key = entry[1].key]
                       = entry[1]]
    ELSE db \o entry

\* "for key, parts in candidates.items()", from the index db built so far
IndexCandidates(tree, cands, db) ==
    Fold(LAMBDA d, j : Store(d, IndexGroup(tree, cands[j])), db, 1, Len(cands))

\* "for root in roots", from the empty index
IndexRoots(tree, roots) ==
    Fold(LAMBDA d, r : IndexCandidates(tree, Walk(tree, roots[r]), d),
         <<>>, 1, Len(roots))

\* the index preload_local_media() builds from the tree
preload_local_media(tree) == IndexRoots(tree, Roots(tree))

\* MEDIA_DB.keys(), "k in MEDIA_DB" and MEDIA_DB[k]
Keys(db) == Tuple([i \in 1..Len(db) |-> db[i].key])
HasKey(db, k) == \E i \in 1..Len(db) : db[i].key = k
Entry(db, k) == db[CHOOSE i \in 1..Len(db) : db[i].key = k]

---------------------------------------------------------------------------
(* Names, arguments and natural order.                                     *)

\* None, as _resolve_key returns it
None == <<"None">>

\* the index of the last character of s at or before index i that is not
\* white space
BeforeSpace(s, i) == SkipRight(s, i, {" ", "NL"})

\* "\(\s*\d+" read from the right with the digits ending at index d: the
\* index of the "(", or 0 when the digits or the "(" are missing
ParenStart(s, d, b) ==
    IF b < d /\ BeforeSpace(s, b) >= 1 /\ s[BeforeSpace(s, b)] = "("
    THEN BeforeSpace(s, b) ELSE 0

\* "\d+\s+l[ii']neas" read from the right, the word ending at index w
LineasStart(s, w) ==
    IF /\ w >= 6
       /\ Lower(SubSeq(s, w - 5, w)) \in { <<"l", "i", "n", "e", "a", "s">>,
           <<"l", "i_acute", "n", "e", "a", "s">> }
       /\ BeforeSpace(s, w - 6) < w - 6
    THEN ParenStart(s, BeforeSpace(s, w - 6),
                    SkipRight(s, BeforeSpace(s, w - 6), Range(Digits)))
    ELSE 0

\* the match of r"\s*\(\s*\d+\s+l[ii']neas\s*\)\s*$" with its ")" at index c:
\* the index of its "(", or 0 when there is no match
SuffixParen(s, c) ==
    IF c >= 1 /\ s[c] = ")" THEN LineasStart(s, BeforeSpace(s, c - 1)) ELSE 0

\* what re.sub leaves of s: the index of its last character
SuffixStart(s) ==
    IF SuffixParen(s, BeforeSpace(s, Len(s))) = 0 THEN Len(s)
    ELSE BeforeSpace(s, SuffixParen(s, BeforeSpace(s, Len(s))) - 1)

\* the lines 145 and 146 on the stripped name
CleanStripped(s) ==
    StripChars(SubSeq(s, 1, SuffixStart(s)),
               {" ", "'", "\"", "LDQUO", "RDQUO", "LSQUO", "RSQUO"})

_clean_material_name(s) == CleanStripped(Strip(s))

LenLess(a, b) == Len(a) < Len(b)

\* PickCandidate taking the first of the sorted candidates
PickShortest(candidates) ==
    IF Len(candidates) = 0 THEN None ELSE SortedBy(candidates, LenLess)[1]

\* "if len(candidates) == 1 ... if candidates: sort(key=len); [-1]"
PickCandidate(candidates) ==
    IF Len(candidates) = 1 THEN candidates[1]
    ELSE IF Len(candidates) > 1
    THEN SortedBy(candidates, LenLess)[Len(candidates)]
    ELSE None

\* the keys that end with "/" + lname or whose basename is lname
Candidates(db, lname) ==
    SelectSeq(Keys(db),
              LAMBDA k : \/ EndsWith(Lower(k), <<"/">> \o lname)
                         \/ Lower(Basename(k)) = lname)

\* "for k in MEDIA_DB.keys(): if k.lower() == lname: return k", and on
ResolveLower(db, lname) ==
    IF \E i \in 1..Len(db) : Lower(db[i].key) = lname
    THEN db[Min({ i \in 1..Len(db) : Lower(db[i].key) = lname })].key
    ELSE PickCandidate(Candidates(db, lname))

\* _resolve_key after line 149, name being the cleaned name
ResolveClean(db, name) ==
    IF HasKey(db, name) THEN name ELSE ResolveLower(db, Lower(name))

_resolve_key(db, name) == ResolveClean(db, _clean_material_name(name))

\* the index of the first white space of s at or after index p (0: none)
SpaceFrom(s, p) ==
    IF \A i \in p..Len(s) : ~IsSpace(s[i]) THEN 0
    ELSE Min({ i \in p..Len(s) : IsSpace(s[i]) })

\* s.split(maxsplit=n) of a stripped s from index p, with n splits left
RECURSIVE SplitFrom(_, _, _)
SplitFrom(s, p, n) ==
    IF p > Len(s) THEN <<>>
    ELSE IF n = 0 \/ SpaceFrom(s, p) = 0 THEN <<SubSeq(s, p, Len(s))>>
    ELSE <<SubSeq(s, p, SpaceFrom(s, p) - 1)>>
         \o SplitFrom(s, AfterSpace(s, SpaceFrom(s, p)), n - 1)

\* text.strip().split(maxsplit=2)
SplitMax2(text) == SplitFrom(Strip(text), 1, 2)

\* the value of parse_cmd_with_page from parts
PageOfParts(parts) ==
    IF Len(parts) = 1 THEN [query |-> <<>>, page |-> 1]
    ELSE IF Len(parts) = 2
    THEN IF IsDigitStr(parts[2])
         THEN [query |-> <<>>, page |-> ToInt(parts[2])]
         ELSE [query |-> parts[2], page |-> 1]
    ELSE IF IsDigitStr(parts[3])
    THEN [query |-> parts[2], page |-> ToInt(parts[3])]
    ELSE [query |-> parts[2] \o <<" ">> \o parts[3], page |-> 1]

\* (query, page)
parse_cmd_with_page(text) == PageOfParts(SplitMax2(text))

\* a token of natsort_key: an int (isint, n) or a str (s)
IntTok(n) == [isint |-> TRUE, n |-> n, s |-> <<>>]
StrTok(s) == [isint |-> FALSE, n |-> 0, s |-> s]

\* the first and last indexes of the runs of digits of s, in order
DigitRunStarts(s) ==
    SortedSeqOf({ i \in 1..Len(s) :
                    IsDigitChar(s[i]) /\ (i = 1 \/ ~IsDigitChar(s[i - 1])) })
DigitRunEnds(s) ==
    SortedSeqOf({ i \in 1..Len(s) :
                    IsDigitChar(s[i])
                    /\ (i = Len(s) \/ ~IsDigitChar(s[i + 1])) })

\* the parts of re.split(r'(\d+)', seg) as tokens, the runs of digits of seg
\* starting at ds and ending at es
TokensAt(seg, ds, es) ==
    Tuple([t \in 1..(2 * Len(ds) + 1) |->
       IF t % 2 = 0
       THEN IntTok(ToInt(SubSeq(seg, ds[t \div 2], es[t \div 2])))
       ELSE StrTok(SubSeq(seg,
                IF t = 1 THEN 1 ELSE es[(t - 1) \div 2] + 1,
                IF t = 2 * Len(ds) + 1 THEN Len(seg)
                ELSE ds[(t + 1) \div 2] - 1))])

\* [int(part) if part.isdigit() else part for part in re.split(r'(\d+)', seg)]
SegTokens(seg) == TokensAt(seg, DigitRunStarts(seg), DigitRunEnds(seg))

\* the tokens of the segments segs, in order
TokensOf(segs) ==
    Concat(Tuple([i \in 1..Len(segs) |-> SegTokens(Lower(segs[i]))]))

natsort_key(path) == TokensOf(SplitOn(path, "/"))

RECURSIVE TokCmp(_, _, _)
\* Python's "a < b" on two token lists, from index i: "lt", "eq" or "gt", or
\* "err" when the first two elements that differ are an int and a str
TokCmp(a, b, i) ==
    IF i > Len(a) THEN (IF i > Len(b) THEN "eq" ELSE "lt")
    ELSE IF i > Len(b) THEN "gt"
    ELSE IF a[i] = b[i] THEN TokCmp(a, b, i + 1)
    ELSE IF a[i].isint # b[i].isint THEN "err"
    ELSE IF a[i].isint THEN (IF a[i].n < b[i].n THEN "lt" ELSE "gt")
    ELSE IF StrLess(a[i].s, b[i].s) THEN "lt" ELSE "gt"

TokLess(a, b) == TokCmp(a.tok, b.tok, 1) = "lt"

\* the keys with their sort keys
Keyed(keys) ==
    Tuple([i \in 1..Len(keys) |->
             [key |-> keys[i], tok |-> natsort_key(keys[i])]])

\* two of the sort keys are incomparable
Incomparable(pairs) ==
    \E i, j \in 1..Len(pairs) :
        i < j /\ TokCmp(pairs[i].tok, pairs[j].tok, 1) = "err"

\* sorted(keys, key=natsort_key) raises TypeError.  The model raises when any
\* two keys are incomparable; the sort of a two-element list compares its two
\* elements, a longer list may or may not bring an incomparable pair together
SortRaises(keys) == Incomparable(Keyed(keys))

\* the keys of the sorted pairs
KeysOf(sorted) == Tuple([i \in 1..Len(sorted) |-> sorted[i].key])

\* sorted(keys, key=natsort_key), when it does not raise
NaturalSorted(keys) == KeysOf(SortedBy(Keyed(keys), TokLess))

\* int(nums[-1]), the runs of digits of b starting at ds and ending at es
LastNumber(b, ds, es) ==
    IF Len(ds) = 0 THEN [none |-> TRUE, n |-> 0]
    ELSE [none |-> FALSE, n |-> ToInt(SubSeq(b, ds[Len(ds)], es[Len(es)]))]

\* the last number of the basename b
LastNumberOf(b) == LastNumber(b, DigitRunStarts(b), DigitRunEnds(b))

\* int(nums[-1]) of the runs of digits of the basename; none when there is none
extract_last_number(key) == LastNumberOf(Basename(key))

\* str(n) of an integer
IntStr(n) == IF n < 0 THEN <<"-">> \o ToStr(0 - n) ELSE ToStr(n)

\* f"{start}-{end}" with end = start + 9
RangeLabel(start) == IntStr(start) \o <<"NDASH">> \o IntStr(start + 9)

range_label_from_n(n) == RangeLabel(((n - 1) \div 10) * 10 + 1)

---------------------------------------------------------------------------
(* The pager.                                                              *)

\* f"{title} (pag. {page}/{total_pages}, total {total}):\n"
PageHeader(title, page, total_pages, total) ==
    title \o <<" ", "(", "p", "a_acute", "g", ".",
        " ">> \o IntStr(page) \o <<"/">> \o IntStr(total_pages)
          \o <<",", " ", "t", "o", "t", "a", "l",
              " ">> \o IntStr(total) \o <<")", ":", "NL">>

\* the bucket of a key whose last number is n: its decade, or "otros"
Bucket(n) == IF n.none THEN <<"otros", 0>> ELSE <<"num", (n.n - 1) \div 10>>

\* the block header of a key whose last number is n
Header(n) ==
    IF n.none THEN <<"NL", "[", "O", "t", "r", "o", "s", "]", "NL">>
    ELSE <<"NL", "[">> \o range_label_from_n(n.n) \o <<"]", "NL">>

\* f"* {k} ({len(MEDIA_DB[k].get('cues') or [])} lineas)\n"
KeyLine(db, k) ==
    <<"BULLET", " ">> \o k \o <<" ", "(">> \o IntStr(Len(Entry(db,
        k).cues)) \o <<" ", "l", "i_acute", "n", "e", "a", "s", ")", "NL">>

\* the lines 251 to 255 for the key k: its line is added, or the loop breaks
AddLine(st, k, line) ==
    IF st.used + Len(line) > MSG_BUDGET THEN [st EXCEPT !.stop = TRUE]
    ELSE [st EXCEPT !.out = @ \o line, !.used = @ + Len(line),
                    !.shown = Append(@, k)]

\* a new block starts at the key k: its header is added, or the loop breaks
AddBlock(db, st, k, bucket, block_header) ==
    IF st.used + Len(block_header) > MSG_BUDGET THEN [st EXCEPT !.stop = TRUE]
    ELSE AddLine([st EXCEPT !.out = @ \o block_header,
                            !.used = @ + Len(block_header),
                            !.last = bucket],
                 k, KeyLine(db, k))

\* the body of "for k in slice_keys" for the key k with last number n
PageKey(db, st, k, n) ==
    IF Bucket(n) # st.last THEN AddBlock(db, st, k, Bucket(n), Header(n))
    ELSE AddLine(st, k, KeyLine(db, k))

\* one iteration of "for k in slice_keys": st holds out, used, last_bucket,
\* shown (the keys whose line has been added) and stop (the loop has broken)
PageStep(db, st, k) ==
    IF st.stop THEN st ELSE PageKey(db, st, k, extract_last_number(k))

\* the loop over slice_keys and the lines 257 to 260: the text returned, with
\* the page, the slice and the keys whose lines the text holds
PageEnd(st, header, page, total_pages, slice_keys, keys_sorted) ==
    [text |-> RStrip(IF st.used = Len(header)
                     THEN st.out \o <<"(", "s", "i", "n", " ", "e", "l", "e",
                         "m", "e", "n", "t", "o", "s", " ", "e", "n", " ",
                         "e", "s", "t", "a", " ", "p", "a_acute", "g", "i",
                         "n", "a", ")">>
                     ELSE st.out),
     page |-> page, total_pages |-> total_pages, slice |-> slice_keys,
     sorted |-> keys_sorted, shown |-> st.shown]

PageLoop(db, header, page, total_pages, slice_keys, keys_sorted) ==
    PageEnd(Fold(LAMBDA st, i : PageStep(db, st, slice_keys[i]),
                 [out |-> header, used |-> Len(header),
                  last |-> <<"none", 0>>, shown |-> <<>>, stop |-> FALSE],
                 1, Len(slice_keys)),
            header, page, total_pages, slice_keys, keys_sorted)

\* SliceEnd one short of the end of the window
SliceEndShort(start, total) ==
    IF start + PAGE_SIZE - 1 < total THEN start + PAGE_SIZE - 1 ELSE total

\* min(start + PAGE_SIZE, total)
SliceEnd(start, total) ==
    IF start + PAGE_SIZE < total THEN start + PAGE_SIZE ELSE total

\* the lines 220 to 224 for the clamped page
PageAt(db, keys_sorted, page, total_pages, title) ==
    PageLoop(db, PageHeader(title, page, total_pages, Len(keys_sorted)),
             page, total_pages,
             SubSeq(keys_sorted, (page - 1) * PAGE_SIZE + 1,
                    SliceEnd((page - 1) * PAGE_SIZE, Len(keys_sorted))),
             keys_sorted)

\* page = max(1, min(page, total_pages))
ClampPage(page, total_pages) ==
    IF page > total_pages THEN total_pages ELSE IF page < 1 THEN 1 ELSE page

\* total_pages = max(1, (total + PAGE_SIZE - 1) // PAGE_SIZE)
TotalPages(total) ==
    IF (total + PAGE_SIZE - 1) \div PAGE_SIZE > 1
    THEN (total + PAGE_SIZE - 1) \div PAGE_SIZE ELSE 1

\* build_page from line 217 on
PageSorted(db, keys_sorted, page, title) ==
    PageAt(db, keys_sorted, ClampPage(page, TotalPages(Len(keys_sorted))),
           TotalPages(Len(keys_sorted)), title)

\* no page built
NoPage ==
    [text |-> <<>>, page |-> 0, total_pages |-> 0, slice |-> <<>>,
     sorted |-> <<>>, shown |-> <<>>]

\* build_page(keys, page, title), its sort not raising: the text it returns
\* (text) and how it got there
build_page(db, keys, page, title) ==
    IF keys = <<>>
    THEN [NoPage EXCEPT !.text = title \o <<" ", "(", "v", "a", "c",
        "i_acute", "o", ")">>, !.page = page]
    ELSE PageSorted(db, NaturalSorted(keys), page, title)

---------------------------------------------------------------------------
(* The command handlers.  A handler is a function of the files, the index  *)
(* and the update; it yields the index it leaves (db), what it computed    *)
(* (cmd) and the messages it sent (sent).  A message is a text (answer) or *)
(* an audio (answer_audio, ok telling whether the delivery succeeded).     *)

Text(body) == [kind |-> "text", body |-> body, ok |-> TRUE, file |-> <<>>]
Audio(path, caption, ok) ==
    [kind |-> "audio", body |-> caption, ok |-> ok, file |-> path]

\* what a handler computed: the query and requested page of
\* parse_cmd_with_page (or the name given to /play), the keys and the title
\* given to build_page with what it returned (built), the resolved key,
\* raised (the handler ended in an uncaught exception) and the text blob of
\* /play
NoCmd ==
    [kind |-> "none", text |-> <<>>, parsed |-> FALSE, query |-> <<>>,
     page |-> 0, paged |-> FALSE, keys |-> <<>>, title |-> <<>>,
     built |-> NoPage, key |-> None,
     raised |-> FALSE, played |-> FALSE, full_text |-> <<>>]

\* "text = build_page(...); await msg.answer(text)" with the page built
Answered(db, c, built) ==
    [db |-> db, cmd |-> [c EXCEPT !.paged = TRUE, !.built = built],
     sent |-> <<Text(built.text)>>]

\* the part of list_cmd and search_cmd from build_page on
Paged(db, c, keys, title) ==
    IF SortRaises(keys)
    THEN [db |-> db,
          cmd |-> [c EXCEPT !.raised = TRUE, !.keys = keys, !.title = title],
          sent |-> <<>>]
    ELSE Answered(db, [c EXCEPT !.keys = keys, !.title = title],
                  build_page(db, keys, c.page, title))

\* the command record after parse_cmd_with_page returned p
Parsed(kind, text, p) ==
    [NoCmd EXCEPT !.kind = kind, !.text = text, !.parsed = TRUE,
                  !.query = p.query, !.page = p.page]

\* list_cmd after preload_local_media() has built db
ListIn(db, text) ==
    IF db = <<>>
    THEN [db |-> db, cmd |-> [NoCmd EXCEPT !.kind = "list", !.text = text],
          sent |-> <<Text(<<"N", "o", " ", "h", "e", " ", "e", "n", "c", "o",
              "n", "t", "r", "a", "d", "o", " ", "m", "a", "t", "e", "r", "i",
              "a", "l", "e", "s", " ", "e", "n", " ", "d", "a", "t", "a", "/",
              ".">>)>>]
    ELSE Paged(db, Parsed("list", text, parse_cmd_with_page(text)), Keys(db),
               <<"M", "a", "t", "e", "r", "i", "a", "l", "e", "s", " ", "e",
                   "n", "c", "o", "n", "t", "r", "a", "d", "o", "s">>)

\* list_cmd on the index db it finds and the files of the tree
list_cmd(db, tree, text) == ListIn(preload_local_media(tree), text)

\* search_cmd from line 294 on, q being the stripped lowercased query
SearchKeys(db, c, keys) ==
    IF keys = <<>>
    THEN [db |-> db, cmd |-> c, sent |-> <<Text(<<"S", "i", "n", " ", "r",
        "e", "s", "u", "l", "t", "a", "d", "o", "s", ".">>)>>]
    ELSE Paged(db, c, keys, <<"R", "e", "s", "u", "l", "t", "a", "d", "o",
        "s", " ", "p", "a", "r", "a", " ",
        "LDQUO">> \o c.query \o <<"RDQUO">>)

\* search_cmd from line 290 on
SearchFor(db, c, q) ==
    IF q = <<>>
    THEN [db |-> db, cmd |-> c,
          sent |-> <<Text(<<"U", "s", "o", ":", " ", "/", "s", "e", "a", "r",
              "c", "h", " ", "<", "t", "e", "x", "t", "o", ">", " ", "[", "p",
              "a_acute", "g", "i", "n", "a", "]">>)>>]
    ELSE SearchKeys(db, c,
                    SelectSeq(Keys(db), LAMBDA k : Contains(Lower(k), q)))

\* search_cmd after parse_cmd_with_page
SearchParsed(db, c) == SearchFor(db, c, Lower(Strip(c.query)))

search_cmd(db, tree, text) ==
    SearchParsed(preload_local_media(tree),
                 Parsed("search", text, parse_cmd_with_page(text)))

\* rescan_cmd after preload_local_media() has built db
Reindexed(db) ==
    [db |-> db, cmd |-> [NoCmd EXCEPT !.kind = "rescan"],
     sent |-> <<Text(<<"R", "e", "i", "n", "d", "e", "x", "a", "d", "o", ".",
         " ", "T", "o", "t", "a", "l", " ", "m", "a", "t", "e", "r", "i", "a",
         "l", "e", "s", ":", " ">> \o IntStr(Len(db)))>>]

\* rescan_cmd answering from the index it finds
rescan_cmd_stale(db, tree) == Reindexed(db)

rescan_cmd(db, tree) == Reindexed(preload_local_media(tree))

\* msg.text.split(maxsplit=1)
SplitMax1(text) == SplitFrom(text, AfterSpace(text, 1), 1)

\* the translation service: what it answers when it answers
Translated(text) == <<"e", "s", ":", " ">> \o text

\* translate_line; up tells whether the service answers or raises
translate_line(text, up) ==
    IF Strip(text) = <<>> THEN <<>>
    ELSE IF up THEN Translated(text) ELSE text

\* out_lines: f"{orig}\n{trans}\n" for each cue
OutLines(cues, up) ==
    Tuple([i \in 1..Len(cues) |->
             cues[i].text \o <<"NL">> \o translate_line(cues[i].text, up)
                          \o <<"NL">>])

\* "\n".join(out_lines).strip()
FullText(cues, up) == Strip(Join(<<"NL">>, OutLines(cues, up)))

\* min(hi, n)
UpTo(hi, n) == IF hi < n THEN hi ELSE n

\* Chunks sending the text whole
OneChunk(full_text) == IF full_text = <<>> THEN <<>> ELSE <<full_text>>

\* [full_text[i:i+maxlen] for i in range(0, len(full_text), maxlen)]
Chunks(full_text) ==
    Tuple([c \in 1..((Len(full_text) + maxlen - 1) \div maxlen) |->
             SubSeq(full_text, (c - 1) * maxlen + 1,
                    UpTo(c * maxlen, Len(full_text)))])

\* the answers that carry the chunks
ChunkTexts(chunks) == Tuple([i \in 1..Len(chunks) |-> Text(chunks[i])])

\* play_cmd from line 333 on, the audio delivered
PlayText(db, c, audio, full_text) ==
    [db |-> db, cmd |-> [c EXCEPT !.played = TRUE, !.full_text = full_text],
     sent |-> <<audio>> \o ChunkTexts(Chunks(full_text))]

\* play_cmd from line 318 on
PlayItem(db, c, item, delivered, up) ==
    IF item.audio = <<>> \/ item.cues = <<>>
    THEN [db |-> db, cmd |-> c,
          sent |-> <<Text(<<"F", "a", "l", "t", "a", "n", " ", "a", "r", "c",
              "h", "i", "v", "o", "s", " ", "p", "a", "r", "a", " ", "e", "s",
              "e", " ", "m", "a", "t", "e", "r", "i", "a", "l", ".">>)>>]
    ELSE IF ~delivered
    THEN [db |-> db, cmd |-> c,
          sent |-> << Audio(item.audio, <<"PLAY", " ">> \o c.key, FALSE),
                      Text(<<"N", "o", " ", "p", "u", "d", "e", " ", "e", "n",
                          "v", "i", "a", "r", " ", "e", "l", " ", "a", "u",
                          "d", "i", "o", ":", " ", "e", "r", "r", "o",
                          "r">>) >>]
    ELSE PlayText(db, c, Audio(item.audio, <<"PLAY", " ">> \o c.key, TRUE),
                  FullText(item.cues, up))

\* play_cmd from line 314 on
PlayKey(db, c, delivered, up) ==
    IF c.key = None \/ c.key = <<>> \/ ~HasKey(db, c.key)
    THEN [db |-> db, cmd |-> c,
          sent |-> <<Text(<<"N", "o", " ", "e", "n", "c", "u", "e", "n", "t",
              "r", "o", " ", "e", "s", "e", " ", "m", "a", "t", "e", "r", "i",
              "a", "l", ".", " ", "P", "r", "u", "e", "b", "a", " ", "/", "l",
              "i", "s", "t", " ", "o", " ", "/", "s", "e", "a", "r", "c", "h",
              ".">>)>>]
    ELSE PlayItem(db, c, Entry(db, c.key), delivered, up)

\* play_cmd from line 309 on
PlayParts(db, text, parts, delivered, up) ==
    IF Len(parts) < 2
    THEN [db |-> db, cmd |-> [NoCmd EXCEPT !.kind = "play", !.text = text],
          sent |-> <<Text(<<"U", "s", "o", ":", " ", "/", "p", "l", "a", "y",
              " ", "<", "c", "l", "a", "v", "e", " ", "o", " ", "n", "o", "m",
              "b", "r", "e", ">">>)>>]
    ELSE PlayKey(db,
                 [NoCmd EXCEPT !.kind = "play", !.text = text,
                               !.parsed = TRUE, !.query = parts[2],
                               !.key = _resolve_key(db, parts[2])],
                 delivered, up)

\* play_cmd: delivered tells whether answer_audio succeeds, up whether the
\* translation service answers
play_cmd(db, text, delivered, up) ==
    PlayParts(db, text, SplitMax1(text), delivered, up)

---------------------------------------------------------------------------
(* The state machine.  main() builds the index once and the dispatcher     *)
(* then handles one update at a time, each handler running to its end;     *)
(* between two updates the files under DATA_DIR may change.                *)

File(root, rel, name, readable, content) ==
    [root |-> root, rel |-> rel, name |-> name, readable |-> readable,
     content |-> content]

\* the state after main() has called preload_local_media() on the tree
Started(tree) ==
    /\ fs = tree
    /\ MEDIA_DB = preload_local_media(tree)
    /\ scanned = tree
    /\ changes = 0
    /\ pc = "idle"
    /\ cmd = NoCmd
    /\ sent = <<>>

\* a handler that rebuilds the index has run
Rebuilt(r) ==
    /\ pc = "idle"
    /\ MEDIA_DB' = r.db
    /\ scanned' = fs
    /\ changes' = 0
    /\ cmd' = r.cmd
    /\ sent' = r.sent
    /\ pc' = "done"
    /\ UNCHANGED fs

ListCmd(text) == Rebuilt(list_cmd(MEDIA_DB, fs, text))

SearchCmd(text) == Rebuilt(search_cmd(MEDIA_DB, fs, text))

RescanCmd == Rebuilt(rescan_cmd(MEDIA_DB, fs))

\* a handler that leaves the index as it is has run
Handled(r) ==
    /\ pc = "idle"
    /\ MEDIA_DB' = r.db
    /\ cmd' = r.cmd
    /\ sent' = r.sent
    /\ pc' = "done"
    /\ UNCHANGED <<fs, scanned, changes>>

PlayCmd(text, delivered, up) ==
    Handled(play_cmd(MEDIA_DB, text, delivered, up))

\* the dispatcher takes the next update
Poll ==
    /\ pc = "done"
    /\ pc' = "idle"
    /\ cmd' = NoCmd
    /\ sent' = <<>>
    /\ UNCHANGED <<fs, MEDIA_DB, scanned, changes>>

\* bounds of the changing tree: its files, and the changes between rebuilds
MaxFiles == 4
MaxChanges == 1

(* The files of the changing tree, in the order the directories list them: *)
(* r/a has an audio file, a transcript one of whose lines is nothing but   *)
(* tags, and subtitles, listed after the transcript, that cannot be read;  *)
(* r/d/b has an audio file, subtitles that cannot be read and, listed      *)
(* after them, subtitles with three blocks, the second ending before it    *)
(* starts and the third with nothing but tags.                             *)
SrtB ==
    << <<"1">>, <<"0", "0", ":", "0", "0", ":", "0", "0", ".", "0", "0", "0",
        " ", "-", "-", ">", " ", "0", "0", ":", "0", "0", ":", "0", "2", ".",
        "0", "0", "0">>, <<"H", "o", "l", "a">>, <<>>,
       <<"2">>, <<"0", "0", ":", "0", "0", ":", "0", "3", ",", "0", "0", "0",
           " ", "-", "-", ">", " ", "0", "0", ":", "0", "0", ":", "0", "2",
           ",", "5", "0", "0">>, <<"t", "a", "r", "d", "e">>, <<>>,
       <<"3">>, <<"0", "0", ":", "0", "4", ".", "0", "0", "0", " ", "-", "-",
           ">", " ", "0", "0", ":", "0", "5", ".", "0", "0", "0">>, <<"<",
           "i", ">", "<", "/", "i", ">">> >>

Universe ==
    << File(<<"r">>, <<>>, <<"a", ".", "m", "p", "3">>, TRUE, <<>>),
       File(<<"r">>, <<>>, <<"a", ".", "t", "x", "t">>, TRUE, <<<<"H", "i",
           " ", "t", "h", "e", "r", "e">>, <<"<", "b", ">", "<", "/", "b",
           ">">>>>),
       File(<<"r">>, <<>>, <<"a", ".", "s", "r", "t">>, FALSE, <<>>),
       File(<<"r">>, <<"d">>, <<"b", ".", "m", "p", "3">>, TRUE, <<>>),
       File(<<"r">>, <<"d">>, <<"b", ".", "v", "t", "t">>, FALSE, <<>>),
       File(<<"r">>, <<"d">>, <<"b", ".", "s", "r", "t">>, TRUE, SrtB) >>

\* the files of the set S as the directories list them
Listing(S) == SelectSeq(Universe, LAMBDA f : f \in S)

\* a file appears under DATA_DIR
AddFile(f) ==
    /\ pc = "idle"
    /\ Len(fs) < MaxFiles
    /\ changes < MaxChanges
    /\ f \notin Range(fs)
    /\ fs' = Listing(Range(fs) \cup {f})
    /\ changes' = changes + 1
    /\ UNCHANGED <<MEDIA_DB, scanned, pc, cmd, sent>>

\* a file disappears
RemoveFile(f) ==
    /\ pc = "idle"
    /\ changes < MaxChanges
    /\ f \in Range(fs)
    /\ fs' = Listing(Range(fs) \ {f})
    /\ changes' = changes + 1
    /\ UNCHANGED <<MEDIA_DB, scanned, pc, cmd, sent>>

ListTexts == { <<"/", "l", "i", "s", "t">> }
SearchTexts == { <<"/", "s", "e", "a", "r", "c", "h", " ", "a">> }
PlayTexts == { <<"/", "p", "l", "a", "y", " ", "a">>, <<"/", "p", "l", "a",
    "y", " ", "b">> }

Init == Started(<<>>)

Next ==
    \/ \E f \in Range(Universe) : AddFile(f)
    \/ \E f \in Range(Universe) : RemoveFile(f)
    \/ \E t \in ListTexts : ListCmd(t)
    \/ \E t \in SearchTexts : SearchCmd(t)
    \/ RescanCmd
    \/ \E t \in PlayTexts : \E delivered, up \in BOOLEAN :
          PlayCmd(t, delivered, up)
    \/ Poll

Spec == Init /\ [][Next]_vars

---------------------------------------------------------------------------
(* Playing.  The trees hold, in any combination, three groups of           *)
(* materials: materials whose names end like the decoration of a listing   *)
(* line, in a space or in a quote; materials that share a base name; and   *)
(* a transcript long enough for more than one chunk beside subtitles.      *)

\* an audio file and a transcript with the same base name
Pair(root, rel, base, lines) ==
    << File(root, rel, base \o <<".", "m", "p", "3">>, TRUE, <<>>),
       File(root, rel, base \o <<".", "t", "x", "t">>, TRUE, lines) >>

\* the lines of the long transcript, and their number
LongLines == 60
LongLine(i) == <<"l", "i", "n", "e", " ">> \o IntStr(i) \o <<" ", "o", "f",
    " ", "a", " ", "l", "o", "n", "g", " ", "t", "r", "a", "n", "s", "c", "r",
    "i", "p", "t", " ", "t", "o", " ", "r", "e", "a", "d">>

OddNames ==
    Pair(<<"r">>, <<>>, <<"s", " ", "(", "3", " ", "l", "i_acute", "n", "e",
        "a", "s", ")">>, <<<<"u", "n", "o">>>>)
    \o Pair(<<"r">>, <<>>, <<"s">>, <<<<"d", "o", "s">>>>)
    \o Pair(<<"r">>, <<>>, <<"e", " ">>, <<<<"t", "r", "e", "s">>>>)
    \o Pair(<<"r">>, <<>>, <<"'", "q", "'">>, <<<<"c", "u", "a", "t", "r",
        "o">>>>)

SharedNames ==
    Pair(<<"r">>, <<"x">>, <<"t", "r", "a", "c", "k">>, <<<<"o", "n", "e">>>>)
    \o Pair(<<"r">>, <<"d", "e", "e", "p", "/", "x">>, <<"t", "r", "a", "c",
        "k">>, <<<<"t", "w", "o">>>>)
    \o Pair(<<"r">>, <<>>, <<"M", "i", "x">>, <<<<"t", "h", "r", "e", "e">>>>)
    \o Pair(<<"q">>, <<"a">>, <<"t">>, <<<<"f", "o", "u", "r">>>>)
    \o Pair(<<"q">>, <<"b">>, <<"t">>, <<<<"f", "i", "v", "e">>>>)
    \o Pair(<<"q">>, <<"t">>, <<"m", "i", "x">>, <<<<"s", "i", "x">>>>)

LongNames ==
    Pair(<<"r">>, <<>>, <<"l", "o", "n", "g">>,
        Tuple([i \in 1..LongLines |-> LongLine(i)]))
    \o << File(<<"r">>, <<"d">>, <<"b", ".", "m", "p", "3">>, TRUE, <<>>),
          File(<<"r">>, <<"d">>, <<"b", ".", "s", "r", "t">>, TRUE, SrtB) >>

PlayTrees ==
    { a \o b \o c : a \in {<<>>, OddNames}, b \in {<<>>, SharedNames},
                    c \in {<<>>, LongNames} }

PlayNames ==
    { <<"/", "p", "l", "a", "y">>, <<"/", "p", "l", "a", "y", " ", "r", "/",
        "s", " ", "(", "3", " ", "l", "i_acute", "n", "e", "a", "s", ")">>,
        <<"/", "p", "l", "a", "y", " ", "r", "/", "s">>, <<"/", "p", "l", "a",
        "y", " ", "r", "/", "e", " ">>,
      <<"/", "p", "l", "a", "y", " ", "'", "q", "'">>, <<"/", "p", "l", "a",
          "y", " ", "r", "/", "'", "q", "'">>, <<"/", "p", "l", "a", "y", " ",
          "LDQUO", "r", "/", "s", "RDQUO", " ", "(", "1", " ", "l", "i_acute",
          "n", "e", "a", "s", ")">>,
      <<"/", "p", "l", "a", "y", " ", "t", "r", "a", "c", "k">>, <<"/", "p",
          "l", "a", "y", " ", "x", "/", "t", "r", "a", "c", "k">>, <<"/", "p",
          "l", "a", "y", " ", "r", "/", "m", "i", "x">>, <<"/", "p", "l", "a",
          "y", " ", "m", "i", "x">>,
      <<"/", "p", "l", "a", "y", " ", "t">>, <<"/", "p", "l", "a", "y", " ",
          "l", "o", "n", "g">>, <<"/", "p", "l", "a", "y", " ", "L", "O", "N",
          "G", " ", "(", "6", "0", " ", "L", "I_ACUTE", "N", "E", "A", "S",
          ")">>, <<"/", "p", "l", "a", "y", " ", "b">>,
      <<"/", "p", "l", "a", "y", " ", "n", "o", "t", "h", "i", "n", "g">> }

InitPlay == \E tree \in PlayTrees : Started(tree)

NextPlay ==
    \/ \E t \in PlayNames : \E delivered, up \in BOOLEAN :
          PlayCmd(t, delivered, up)
    \/ RescanCmd
    \/ Poll

SpecPlay == InitPlay /\ [][NextPlay]_vars

---------------------------------------------------------------------------
(* Paging.  The trees hold more numbered materials than a page has lines;  *)
(* as many with names so long that the lines of a page pass the budget;    *)
(* one material at the end of a path about as long as the budget; two      *)
(* namespaces one of which is the other followed by a digit; and three     *)
(* numbered materials listed out of order.                                 *)

\* the numbers of the materials of the large trees, and of path segments
Items == 101
Segments == 20

\* the materials base(n), base(n - 1), .. base(1) under the namespace r
Numbered(base(_), n) ==
    Concat(Tuple([i \in 1..n |->
                    Pair(<<"r">>, <<>>, base(n + 1 - i), <<<<"x">>>>)]))

ItemName(i) == <<"i", "t", "e", "m">> \o IntStr(i)
LongName(i) == Rep(<<"t", "r", "a", "c", "k">>, 8) \o IntStr(i)

\* a relative directory of Segments segments of two hundred characters
DeepDir == Join(<<"/">>, Tuple([i \in 1..Segments |-> Rep(<<"a", "b", "c",
    "d", "e">>, 40)]))

PageTrees ==
    { Numbered(ItemName, Items),
      Numbered(LongName, Items),
      Pair(<<"r">>, DeepDir, <<"m">>, <<<<"x">>>>),
      Pair(<<"u", "n", "i", "t">>, <<>>, <<"x">>, <<<<"x">>>>)
          \o Pair(<<"u", "n", "i", "t", "1">>, <<>>, <<"x">>, <<<<"x">>>>),
      Pair(<<"r">>, <<>>, <<"i", "t", "e", "m", "9">>, <<<<"x">>>>)
          \o Pair(<<"r">>, <<>>, <<"i", "t", "e", "m", "1", "0">>,
              <<<<"x">>>>)
          \o Pair(<<"r">>, <<>>, <<"i", "t", "e", "m", "2">>, <<<<"x">>>>) }

Pages == { <<>>, <<" ", "0">>, <<" ", "1">>, <<" ", "2">>, <<" ", "3">> }

Queries ==
    { <<" ", "i", "t", "e", "m">>, <<" ", "i", "t", "e", "m", "1">>, <<" ",
        "t", "r", "a", "c", "k">>, <<" ", "f", "o", "o", " ", "b", "a", "r">>,
        <<" ", "x">>,
      <<" ">> \o DeepDir }

PageLists == { <<"/", "l", "i", "s", "t">> \o p : p \in Pages }
PageSearches == { <<"/", "s", "e", "a", "r", "c",
    "h">> \o q \o p : q \in Queries, p \in Pages }

InitPage == \E tree \in PageTrees : Started(tree)

NextPage ==
    \/ \E t \in PageLists : ListCmd(t)
    \/ \E t \in PageSearches : SearchCmd(t)
    \/ Poll

SpecPage == InitPage /\ [][NextPage]_vars

---------------------------------------------------------------------------
(* Properties.                                                             *)

\* the strings of a sequence of messages, joined
Bodies(msgs) == Concat(Tuple([i \in 1..Len(msgs) |-> msgs[i].body]))

\* a handler that calls build_page has run to its end
PageBuilt == pc = "done" /\ cmd.paged

\* C1: for every list of keys, page and title, the text build_page returns
\* has at most MSG_BUDGET characters, the header line and the notice of an
\* empty page included.
C1_PageWithinBudget == PageBuilt => Len(cmd.built.text) <= MSG_BUDGET

\* x stands before y in seq when both occur in it
Before(seq, x, y) ==
    \A i, j \in 1..Len(seq) : (seq[i] = x /\ seq[j] = y) => i < j

\* C2: the natural order is defined for every pair of keys, so the sort of
\* build_page completes whatever keys it is given, and it places item2
\* before item9 before item10.
C2_SortCompletes ==
    (pc = "done" /\ cmd.keys # <<>>) =>
        /\ ~cmd.raised
        /\ cmd.paged
        /\ Before(cmd.built.sorted, <<"r", "/", "i", "t", "e", "m", "2">>,
            <<"r", "/", "i", "t", "e", "m", "9">>)
        /\ Before(cmd.built.sorted, <<"r", "/", "i", "t", "e", "m", "9">>,
            <<"r", "/", "i", "t", "e", "m", "1", "0">>)

\* /play has resolved the name it was given
Resolved == pc = "done" /\ cmd.kind = "play" /\ cmd.parsed

\* C3: a name that is a key of the index resolves to that key, whatever
\* characters it holds and whatever other keys are indexed.
C3_ExactKeyResolves ==
    (Resolved /\ HasKey(MEDIA_DB, cmd.query)) => cmd.key = cmd.query

\* C4: every cue of every entry of the index ends after it starts and has a
\* non-empty text, whichever routine parsed its file.
C4_CueInvariant ==
    \A i \in 1..Len(MEDIA_DB) : \A j \in 1..Len(MEDIA_DB[i].cues) :
        /\ MEDIA_DB[i].cues[j].end > MEDIA_DB[i].cues[j].start
        /\ MEDIA_DB[i].cues[j].text # <<>>

\* the white-space-delimited tokens of a text
Tokens(text) == SplitFrom(Strip(text), 1, Len(text))

\* what follows the first token of a text, stripped
Remainder(text) ==
    Strip(SubSeq(Strip(text), Len(Tokens(text)[1]) + 1, Len(Strip(text))))

\* C5: the last token of the command text is the page exactly when it is all
\* digits, the query then being the remainder without it; otherwise the page
\* is 1 and the query the whole remainder after the command.
C5_LastTokenIsPage ==
    (pc = "done" /\ cmd.kind \in {"list", "search"} /\ cmd.parsed) =>
        LET toks == Tokens(cmd.text)
            last == toks[Len(toks)]
            rem == Remainder(cmd.text)
        IN  IF Len(toks) >= 2 /\ IsDigitStr(last)
            THEN /\ cmd.page = ToInt(last)
                 /\ cmd.query = Strip(SubSeq(rem, 1, Len(rem) - Len(last)))
            ELSE /\ cmd.page = 1
                 /\ cmd.query = rem

\* the file i of the tree is the text candidate of its group: no text file
\* with the same key is listed after it
TextCandidate(tree, i) ==
    /\ ExtOf(tree[i]) \in TEXT_EXTS
    /\ \A j \in (i + 1)..Len(tree) :
          ~(ExtOf(tree[j]) \in TEXT_EXTS /\ KeyOf(tree[j]) = KeyOf(tree[i]))

\* the tree holds an audio file and a text file that yield the key k, and the
\* text file of the group, the one the scan opens, is read without error
Complete(tree, k) ==
    /\ \E a \in 1..Len(tree) :
          ExtOf(tree[a]) \in AUDIO_EXTS /\ KeyOf(tree[a]) = k
    /\ \E t \in 1..Len(tree) :
          /\ KeyOf(tree[t]) = k
          /\ TextCandidate(tree, t)
          /\ tree[t].readable

\* C6: the index holds a key exactly when the scanned tree holds an audio
\* file and a text file that yield it and the text file was read without
\* error; a group that fails to be read takes no other group with it.
C6_DirectoryIsComplete ==
    /\ \A i \in 1..Len(scanned) :
          HasKey(MEDIA_DB, KeyOf(scanned[i]))
              <=> Complete(scanned, KeyOf(scanned[i]))
    /\ \A i \in 1..Len(MEDIA_DB) : Complete(scanned, MEDIA_DB[i].key)
    /\ \A i, j \in 1..Len(MEDIA_DB) :
          MEDIA_DB[i].key = MEDIA_DB[j].key => i = j

\* C6, its case: one group of the scanned tree could not be read and another
\* is in the index
C6_Witness ==
    /\ \E t \in 1..Len(scanned) :
          /\ TextCandidate(scanned, t)
          /\ ~scanned[t].readable
          /\ \E a \in 1..Len(scanned) :
                ExtOf(scanned[a]) \in AUDIO_EXTS
                /\ KeyOf(scanned[a]) = KeyOf(scanned[t])
    /\ MEDIA_DB # <<>>

\* the keys of the index that end with "/" and the lowercased name, or whose
\* last path segment is the lowercased name
Matching(db, lname) ==
    { k \in Range(Keys(db)) :
        \/ EndsWith(Lower(k), <<"/">> \o lname)
        \/ Lower(Basename(k)) = lname }

\* the keys of the index that are the name but for the case of letters
SameButCase(db, name) == { k \in Range(Keys(db)) : Lower(k) = Lower(name) }

\* C7: an exact match, then a case-insensitive match, come first; failing
\* both, when two or more keys end with "/" and the lowercased cleaned name
\* or have it as last path segment, _resolve_key returns one of them that no
\* other is longer than, and never None.
C7_LongestCandidate ==
    Resolved =>
        LET name == _clean_material_name(cmd.query)
            same == SameButCase(MEDIA_DB, name)
            candidates == Matching(MEDIA_DB, Lower(name))
        IN  /\ HasKey(MEDIA_DB, name) => cmd.key = name
            /\ (~HasKey(MEDIA_DB, name) /\ same # {}) => cmd.key \in same
            /\ (same = {} /\ Cardinality(candidates) >= 2) =>
                  /\ cmd.key \in candidates
                  /\ \A k \in candidates : Len(k) <= Len(cmd.key)

\* C7, its case: the name matches no key as a whole, two keys of different
\* lengths share it as base name, and the longer one is returned
C7_Witness ==
    /\ Resolved
    /\ SameButCase(MEDIA_DB, _clean_material_name(cmd.query)) = {}
    /\ \E k \in Matching(MEDIA_DB, Lower(_clean_material_name(cmd.query))) :
          Len(k) < Len(cmd.key)
    /\ cmd.key \in Matching(MEDIA_DB, Lower(_clean_material_name(cmd.query)))

\* the messages of /play begin with an attempt to deliver the audio
AudioFirst == sent # <<>> /\ sent[1].kind = "audio"

\* C8: /play attempts the audio before any text; when the delivery fails the
\* user gets exactly one error message and no chunk; when it succeeds the
\* chunks follow in order, each of at most 3500 characters, and joined they
\* are the text built from the cues in their order.
C8_AudioThenChunks ==
    (pc = "done" /\ cmd.kind = "play") =>
        /\ \A i \in 2..Len(sent) : sent[i].kind = "text"
        /\ cmd.played => AudioFirst /\ sent[1].ok
        /\ (AudioFirst /\ ~sent[1].ok) =>
              /\ Len(sent) = 2
              /\ StartsWith(sent[2].body, <<"N", "o", " ", "p", "u", "d", "e",
                  " ", "e", "n", "v", "i", "a", "r", " ", "e", "l", " ", "a",
                  "u", "d", "i", "o">>)
              /\ ~cmd.played
        /\ (AudioFirst /\ sent[1].ok) =>
              /\ cmd.played
              /\ sent[1].file = Entry(MEDIA_DB, cmd.key).audio
              /\ \A i \in 2..Len(sent) :
                    Len(sent[i].body) \in 1..3500
              /\ Bodies(Tail(sent)) = cmd.full_text
              /\ cmd.full_text \in
                    { FullText(Entry(MEDIA_DB, cmd.key).cues, up) :
                        up \in BOOLEAN }

\* C8, its case: the audio delivered and the text sent in several chunks
C8_Witness == pc = "done" /\ AudioFirst /\ sent[1].ok /\ Len(sent) > 2

\* C9 as stated: every handler that reads the index, /play too, has rebuilt
\* it from the files as they are when the command is handled.
C9_EveryHandlerRebuilds ==
    (pc = "done" /\ cmd.kind \in {"list", "search", "rescan", "play"}) =>
        MEDIA_DB = preload_local_media(fs)

\* C9, amended: /list, /search and /rescan rebuild the index from the files
\* as they are and then read it; /play rebuilds nothing and resolves the
\* name in the index that the latest rebuild left, that of startup or of an
\* earlier command.
C9_RebuildBeforeRead ==
    /\ MEDIA_DB = preload_local_media(scanned)
    /\ (pc = "done" /\ cmd.kind \in {"list", "search", "rescan"}) =>
          scanned = fs
    /\ (pc = "done" /\ cmd.kind = "rescan") =>
          sent = <<Text(<<"R", "e", "i", "n", "d", "e", "x", "a", "d", "o",
              ".", " ", "T", "o", "t", "a", "l", " ", "m", "a", "t", "e", "r",
              "i", "a", "l", "e", "s", ":", " ">>
                        \o IntStr(Len(preload_local_media(fs))))>>
    /\ Resolved =>
          cmd.key = _resolve_key(preload_local_media(scanned), cmd.query)

\* C9, its case: /play has answered from an index that is not the one of the
\* files as they are
C9_Witness ==
    /\ pc = "done"
    /\ cmd.kind = "play"
    /\ scanned # fs
    /\ MEDIA_DB # preload_local_media(fs)

\* ceil(count / PAGE_SIZE), at least 1
PagesOf(count) ==
    IF count <= PAGE_SIZE THEN 1 ELSE (count + PAGE_SIZE - 1) \div PAGE_SIZE

\* the page p clamped into [1, pages]
Clamped(p, pages) == IF p < 1 THEN 1 ELSE IF p > pages THEN pages ELSE p

\* the keys are in natural order
InNaturalOrder(keys) ==
    \A i \in 1..(Len(keys) - 1) :
        TokCmp(natsort_key(keys[i]), natsort_key(keys[i + 1]), 1)
            \in {"lt", "eq"}

\* the page holds the keys of its window: those at the sorted positions
\* (p - 1) * PAGE_SIZE + 1 .. min(p * PAGE_SIZE, count), in natural order
PageWindow(b, keys, page) ==
    LET count == Len(keys)
        p == Clamped(page, PagesOf(count))
    IN  /\ b.total_pages = PagesOf(count)
        /\ b.page = p
        /\ Len(b.sorted) = count
        /\ Range(b.sorted) = Range(keys)
        /\ InNaturalOrder(b.sorted)
        /\ b.slice = SubSeq(b.sorted, (p - 1) * 100 + 1,
                            IF p * 100 < count THEN p * 100 ELSE count)

\* the number of key lines of a text
LinesOf(text) == Cardinality({ i \in 1..Len(text) : text[i] = "BULLET" })

=============================================================================
